---- MODULE Spec2Model ----
(***************************************************************************)
(* A model of the twitch_exporter collectors: the chat-message counter fed *)
(* by the eventsub callback and drained by its collector, the polling      *)
(* collectors (chatters, uptime, clips) and the Exporter.Collect scrape.   *)
(***************************************************************************)
EXTENDS Integers, Sequences, FiniteSets, TLC

\* ---------------------------------------------------------------- bounds
MaxEvents == 3       \* chat-message events delivered in one behaviour
MaxScrapes == 2      \* Update invocations in one behaviour
MaxUptimeScrapes == 3 \* ... of the uptime collector: live, absent, live again
MaxTime == 3         \* the clock stops advancing here
MaxPages == 3        \* GetClips pages the remote chains by cursor

\* ------------------------------------------------------------- universes
Identities == {"alice", "bob"}            \* chatter user names of events
Deliverers == {"d1", "d2"}                \* concurrent runs of the callback
Scrapers == {"s1", "s2"}                  \* concurrent scrapes of a collector
Channels == {"c1", "c2"}                  \* channel login names
ChannelLists == {<< >>, <<"c1">>, <<"c1", "c2">>}   \* configured lists

ErrNoData == "ErrNoData"
ErrEventsubDefaultClientNotSet == "eventsub default client not set"
ChatMessageEvent == "channel.chat.message"
Malformed == "<malformed>"                \* a payload json.Unmarshal rejects
TransportErr == "transport error"         \* the err of a failed remote call
ErrorMessages == {"Unauthorized", ""}     \* ErrorMessage of a non-200 response
Totals == {0, 7}                          \* Data.Total of a chatters response
PageSizes == {1, 2}                       \* len(Data.Clips) of a GetClips page
Offline == -1                             \* no live stream for the channel
NilUser == "<nil>"                         \* a nil *helix.User
CacheTTL == 2                             \* the 24h TTL, in clock ticks
PruneAge == 2                             \* the 5 minutes of prune, in ticks
RateLimitLowWater == 3                    \* remaining <= 3 backs off
GameIDs == {"g1", "g2"}
GameOf == [c \in Channels |-> IF c = "c1" THEN "g1" ELSE "g2"]
GameName == [g \in GameIDs |-> IF g = "g1" THEN "Chess" ELSE "Go"]
UserID == [c \in Channels |-> IF c = "c1" THEN "101" ELSE "102"]

VARIABLES
    channelNames,       \* the configured channel list handed to the collectors
    defaultClient,      \* eventsub.DefaultClient # nil
    callbacks,          \* event types with a callback registered by On
    chatCollector,      \* result of NewChannelChatMessagesCollector
    chatMessages,       \* the MessageCounter map: identity -> count
    chatMessagesMutex,  \* "free" or the holder of chatMessagesMutex
    add,                \* per deliverer: position in the callback / Add
    upd,                \* the chat-messages Update: position and loop state
    events,             \* history: events handed to the callback so far
    dropped,            \* history: events whose payload failed to decode
    added,              \* history: increments written per identity
    emitted,            \* history: sum of chat-message values emitted
    addsSince,          \* history: increments written since the last Update began
    prevQuiet,          \* history: a previous Update exists and nothing was
                        \*   written between its begin and this Update's begin
    chattersCollector,  \* result of NewChannelChattersTotalCollector
    channelIDmap,       \* login -> opaque ID, filled by that constructor
    ctu,                \* the chatters Update: index into channelNames
    firstPush,          \* keys of the firstPush map
    lastScrape,         \* lastScrape
    upt,                \* the uptime Update: position, streams left to push;
                        \*   history: okAt, when the last Update that got a
                        \*   200 response returned; seen, the start time of
                        \*   the stream last pushed per channel; absent, the
                        \*   channels pushed before and missing from a later
                        \*   200 response; total, the sum of the values sent
                        \*   per channel for the session of that stream
    firstPushMutex,     \* "free" or the holder of firstPushMutex
    cup,                \* concurrent uptime Updates: per scrape, its position,
                        \*   the streams left to push and what it has sent
    now,                \* the clock
    streams,            \* remote: per channel, start time of its live stream
    userCache,          \* cache.DefaultCache: username -> user and store time
    lookup,             \* history: the latest GetUserByUsername - which one,
                        \*   how the cache Get and Set went, what it returned
    clp,                \* the clips Update: position, channel, cursor, count
    gameIdCache,        \* gameIdCache: game id -> name and store time
    col,                \* Exporter.Collect: position and loop state
    active,             \* the collector whose Update is running, or "none"
    ch,                 \* samples sent on the output channel by that Update
    ret,                \* what the last Update returned ("running" meanwhile)
    last,               \* the collector whose Update was entered last
    scrapes,            \* history: Update invocations so far
    calls,              \* remote calls (with responses) made by that Update
    crashed             \* the Go runtime ended the process (fatal or panic)

eventsubVars == <<defaultClient, callbacks, chatCollector>>
counterVars == <<chatMessages, chatMessagesMutex, add, events, dropped,
                 added>>
chatUpdVars == <<upd, emitted, addsSince, prevQuiet>>
chatVars == <<eventsubVars, counterVars, chatUpdVars>>
scrapeVars == <<active, ch, ret, last, scrapes, calls, crashed>>

\* everything the chat-messages collector and the callback leave alone
chattersVars == <<chattersCollector, channelIDmap, ctu>>
concVars == <<firstPushMutex, cup>>
uptimeVars == <<firstPush, lastScrape, upt, concVars>>
envVars == <<now, streams>>
clipsVars == <<userCache, clp, lookup>>
exporterVars == <<gameIdCache, col>>

notChat == <<channelNames, chattersVars, uptimeVars, envVars, clipsVars,
             exporterVars>>

vars == <<channelNames, chatVars, chattersVars, uptimeVars, envVars, clipsVars,
          exporterVars, scrapeVars>>

\* --------------------------------------------------------------- helpers
Collectors == {"chat_messages", "chatters", "uptime", "clips", "exporter"}

Sample(family, label, value) == [family |-> family, label |-> label, value |-> value]

\* m[k] of a Go map: the zero value when the key is absent
Count(m, k) == IF k \in DOMAIN m THEN m[k] ELSE 0

\* m[k] = v of a Go map: creates the key when absent
MapSet(m, k, v) == [x \in DOMAIN m \cup {k} |-> IF x = k THEN v ELSE m[x]]

\* sync.Mutex
Lock(p) == chatMessagesMutex = "free" /\ chatMessagesMutex' = p
Unlock(p) == chatMessagesMutex = p /\ chatMessagesMutex' = "free"

\* ------------------------------------------------------------------ Init
Init ==
    /\ channelNames \in ChannelLists
    /\ defaultClient = FALSE
    /\ callbacks = {}
    /\ chatCollector = [state |-> "unbuilt", err |-> "nil"]
    /\ chatMessages = [u \in {} |-> 0]
    /\ chatMessagesMutex = "free"
    /\ add = [d \in Deliverers |-> [pc |-> "idle", username |-> ""]]
    /\ upd = [pc |-> "idle", visited |-> {}, startKeys |-> {}, username |-> ""]
    /\ chattersCollector = [state |-> "unbuilt", err |-> "nil"]
    /\ channelIDmap = [c \in {} |-> ""]
    /\ ctu = [i |-> 0]
    /\ firstPush = {}
    /\ lastScrape = 1
    /\ upt = [pc |-> "idle", streams |-> << >>, okAt |-> 1,
              seen |-> [c \in {} |-> 0], absent |-> {},
              total |-> [c \in {} |-> 0]]
    /\ firstPushMutex = "free"
    /\ cup = [p \in Scrapers |-> [pc |-> "idle", streams |-> << >>, out |-> << >>]]
    /\ now = 1
    /\ streams = [c \in Channels |-> Offline]
    /\ userCache = [c \in {} |-> 0]
    /\ lookup = [n |-> 0, i |-> 0, username |-> "", get |-> "none",
                 set |-> "none", user |-> "", err |-> "nil"]
    /\ clp = [pc |-> "idle", i |-> 0, user |-> "", cursor |-> 0, count |-> 0]
    /\ gameIdCache = [g \in {} |-> 0]
    /\ col = [pc |-> "idle", streams |-> << >>, users |-> << >>,
              games |-> << >>, channelsLive |-> {}, wake |-> 0]
    /\ active = "none"
    /\ ch = << >>
    /\ ret = "none"
    /\ last = "none"
    /\ crashed = FALSE
    /\ events = 0
    /\ dropped = 0
    /\ added = [u \in Identities |-> 0]
    /\ emitted = [u \in Identities |-> 0]
    /\ addsSince = 0
    /\ prevQuiet = FALSE
    /\ scrapes = 0
    /\ calls = << >>

\* ------------------------------------------------- eventsub (eventsub.go)
\* eventsub.New: twitchwh.New fails, or DefaultClient is set
EventsubNew(ok) ==
    /\ ~crashed
    /\ chatCollector.state = "unbuilt"
    /\ ~defaultClient
    /\ defaultClient' = ok
    /\ UNCHANGED <<callbacks, chatCollector, counterVars, chatUpdVars,
                   scrapeVars, notChat>>

\* eventsub.On: the error, and the callbacks registered afterwards
On(event) ==
    IF ~defaultClient
      THEN [err |-> ErrEventsubDefaultClientNotSet, callbacks |-> callbacks]
      ELSE [err |-> "nil", callbacks |-> callbacks \cup {event}]

\* ------------------------- chat messages (channel_chat_messages_total.go)
\* What the constructor returns and registers, given DefaultClient.
NewCollectorResult_Unregistered ==
    IF ~defaultClient
      THEN [state |-> "failed", err |-> ErrEventsubDefaultClientNotSet,
            callbacks |-> callbacks]
      ELSE [state |-> "built", err |-> "nil", callbacks |-> callbacks]

NewCollectorResult ==
    IF ~defaultClient
      THEN [state |-> "failed", err |-> ErrEventsubDefaultClientNotSet,
            callbacks |-> callbacks]
      ELSE LET r == On(ChatMessageEvent) IN
           IF r.err # "nil"
             THEN [state |-> "failed", err |-> r.err, callbacks |-> r.callbacks]
             ELSE [state |-> "built", err |-> "nil", callbacks |-> r.callbacks]

NewChannelChatMessagesCollector ==
    /\ ~crashed
    /\ chatCollector.state = "unbuilt"
    /\ LET r == NewCollectorResult IN
       /\ callbacks' = r.callbacks
       /\ chatCollector' = [state |-> r.state, err |-> r.err]
    /\ UNCHANGED <<defaultClient, counterVars, chatUpdVars, scrapeVars, notChat>>

\* The callback without the return on a payload that fails to unmarshal
Callback_NoDrop(d, payload) ==
    /\ ~crashed
    /\ ChatMessageEvent \in callbacks
    /\ add[d].pc = "idle"
    /\ events < MaxEvents
    /\ events' = events + 1
    /\ dropped' = IF payload = Malformed THEN dropped + 1 ELSE dropped
    /\ add' = [add EXCEPT ![d] = [pc |-> "lock", username |-> payload]]
    /\ UNCHANGED <<eventsubVars, chatMessages, chatMessagesMutex, added,
                   chatUpdVars, scrapeVars, notChat>>

\* The callback registered for channel.chat.message: a payload that fails to
\* unmarshal is logged and dropped, any other reaches chatMessages.Add.
Callback(d, payload) ==
    /\ ~crashed
    /\ ChatMessageEvent \in callbacks
    /\ add[d].pc = "idle"
    /\ events < MaxEvents
    /\ events' = events + 1
    /\ dropped' = IF payload = Malformed THEN dropped + 1 ELSE dropped
    /\ add' = IF payload = Malformed THEN add
              ELSE [add EXCEPT ![d] = [pc |-> "lock", username |-> payload]]
    /\ UNCHANGED <<eventsubVars, chatMessages, chatMessagesMutex, added,
                   chatUpdVars, scrapeVars, notChat>>

\* MessageCounter.Add: chatMessagesMutex.Lock()
Add_Lock(d) ==
    /\ ~crashed
    /\ add[d].pc = "lock"
    /\ Lock(d)
    /\ add' = [add EXCEPT ![d].pc = "write"]
    /\ UNCHANGED <<eventsubVars, chatMessages, events, dropped, added, chatUpdVars,
                   scrapeVars, notChat>>

\* MessageCounter.Add: chatMessages[username]++
Add_Write(d) ==
    /\ ~crashed
    /\ add[d].pc = "write"
    /\ LET u == add[d].username IN
       /\ chatMessages' = MapSet(chatMessages, u, Count(chatMessages, u) + 1)
       /\ added' = [added EXCEPT ![u] = @ + 1]
    /\ addsSince' = addsSince + 1
    /\ add' = [add EXCEPT ![d].pc = "unlock"]
    /\ UNCHANGED <<eventsubVars, chatMessagesMutex, events, dropped, upd, emitted,
                   prevQuiet, scrapeVars, notChat>>

\* MessageCounter.Add: chatMessagesMutex.Unlock()
Add_Unlock(d) ==
    /\ ~crashed
    /\ add[d].pc = "unlock"
    /\ Unlock(d)
    /\ add' = [add EXCEPT ![d] = [pc |-> "idle", username |-> ""]]
    /\ UNCHANGED <<eventsubVars, chatMessages, events, dropped, added, chatUpdVars,
                   scrapeVars, notChat>>

\* The empty-list check left out: Update goes on to its loop
NoChannels_Never == FALSE

\* The Update invocations followed, by collector
ScrapeBound(c) == IF c = "uptime" THEN MaxUptimeScrapes ELSE MaxScrapes

\* An Update is entered by the scrape: one collector at a time.
BeginUpdate(c) ==
    /\ ~crashed
    /\ active = "none"
    /\ scrapes < ScrapeBound(c)
    /\ scrapes' = scrapes + 1
    /\ last' = c
    /\ ch' = << >>

NoChannels == Len(channelNames) = 0

\* Update: the empty-list check, then the range over chatMessages begins
ChatMessages_Update_Begin ==
    /\ BeginUpdate("chat_messages")
    /\ chatCollector.state = "built"
    /\ IF NoChannels
         THEN /\ ret' = ErrNoData
              /\ UNCHANGED <<active, chatUpdVars>>
         ELSE /\ ret' = "running"
              /\ active' = "chat_messages"
              /\ upd' = [pc |-> "range", visited |-> {},
                         startKeys |-> DOMAIN chatMessages, username |-> ""]
              /\ prevQuiet' = (last = "chat_messages" /\ ret = "nil" /\ addsSince = 0)
              /\ addsSince' = 0
              /\ UNCHANGED emitted
    /\ UNCHANGED <<eventsubVars, counterVars, calls, crashed, notChat>>

\* for username, count := range chatMessages: the next entry is read (with no
\* lock held) and its count is sent on ch
ChatMessages_Update_Range(u) ==
    /\ ~crashed
    /\ active = "chat_messages"
    /\ upd.pc = "range"
    /\ u \in DOMAIN chatMessages \ upd.visited
    /\ ch' = Append(ch, Sample("channel_chat_messages_total", u, chatMessages[u]))
    /\ emitted' = [emitted EXCEPT ![u] = @ + chatMessages[u]]
    /\ upd' = [upd EXCEPT !.pc = "reset_lock", !.username = u,
                          !.visited = @ \cup {u}]
    /\ UNCHANGED <<eventsubVars, counterVars, addsSince, prevQuiet, active,
                   ret, last, scrapes, calls, crashed, notChat>>

\* The unlocked map iteration runs while Add is inside its map write: a data
\* race, which the Go runtime may end with "fatal error: concurrent map
\* iteration and map write" (otherwise the iteration reads what it finds).
ChatMessages_Update_RangeFatal ==
    /\ ~crashed
    /\ active = "chat_messages"
    /\ upd.pc = "range"
    /\ \E d \in Deliverers : add[d].pc = "write"
    /\ crashed' = TRUE
    /\ UNCHANGED <<chatVars, active, ch, ret, last, scrapes, calls, notChat>>

\* The range ends: every entry present when it began has been produced (an
\* entry created during the iteration may be produced or skipped); return nil
ChatMessages_Update_RangeEnd ==
    /\ ~crashed
    /\ active = "chat_messages"
    /\ upd.pc = "range"
    /\ upd.startKeys \subseteq upd.visited
    /\ ret' = "nil"
    /\ active' = "none"
    /\ upd' = [pc |-> "idle", visited |-> {}, startKeys |-> {}, username |-> ""]
    /\ UNCHANGED <<eventsubVars, counterVars, emitted, addsSince, prevQuiet,
                   ch, last, scrapes, calls, crashed, notChat>>

\* MessageCounter.Reset: chatMessagesMutex.Lock()
Reset_Lock ==
    /\ ~crashed
    /\ upd.pc = "reset_lock"
    /\ Lock("update")
    /\ upd' = [upd EXCEPT !.pc = "reset_write"]
    /\ UNCHANGED <<eventsubVars, chatMessages, add, events, dropped, added, emitted,
                   addsSince, prevQuiet, scrapeVars, notChat>>

\* chatMessages[username] = 0, by a Reset that deleted the entry instead
ResetEntry_Delete(m, username) ==
    [x \in DOMAIN m \ {username} |-> m[x]]

\* chatMessages[username] = 0
ResetEntry(m, username) == MapSet(m, username, 0)

\* MessageCounter.Reset: chatMessages[username] = 0
Reset_Write ==
    /\ ~crashed
    /\ upd.pc = "reset_write"
    /\ chatMessages' = ResetEntry(chatMessages, upd.username)
    /\ upd' = [upd EXCEPT !.pc = "reset_unlock"]
    /\ UNCHANGED <<eventsubVars, chatMessagesMutex, add, events, dropped, added,
                   emitted, addsSince, prevQuiet, scrapeVars, notChat>>

\* MessageCounter.Reset: chatMessagesMutex.Unlock(); back to the range
Reset_Unlock ==
    /\ ~crashed
    /\ upd.pc = "reset_unlock"
    /\ Unlock("update")
    /\ upd' = [upd EXCEPT !.pc = "range"]
    /\ UNCHANGED <<eventsubVars, chatMessages, add, events, dropped, added, emitted,
                   addsSince, prevQuiet, scrapeVars, notChat>>

NextChat ==
    \/ \E ok \in BOOLEAN : EventsubNew(ok)
    \/ NewChannelChatMessagesCollector
    \/ \E d \in Deliverers, p \in Identities \cup {Malformed} : Callback(d, p)
    \/ \E d \in Deliverers : Add_Lock(d)
    \/ \E d \in Deliverers : Add_Write(d)
    \/ \E d \in Deliverers : Add_Unlock(d)
    \/ ChatMessages_Update_Begin
    \/ \E u \in Identities : ChatMessages_Update_Range(u)
    \/ ChatMessages_Update_RangeFatal
    \/ ChatMessages_Update_RangeEnd
    \/ Reset_Lock
    \/ Reset_Write
    \/ Reset_Unlock

SpecChat == Init /\ [][NextChat]_vars

\* ---------------------------------------------------------------- remote
\* A remote call's outcome: a transport error (kind "err"), or a response
\* with a status code, an error message and a payload.
Failed == [kind |-> "err", status |-> 0, msg |-> ""]
Non2xx == {[kind |-> "resp", status |-> 401, msg |-> "Unauthorized"]}
Non2xxMsg == {[kind |-> "resp", status |-> 401, msg |-> m] : m \in ErrorMessages}
Ok == [kind |-> "resp", status |-> 200, msg |-> ""]

With(r, field, v) == [x \in DOMAIN r \cup {field} |-> IF x = field THEN v ELSE r[x]]

Range(q) == {q[i] : i \in 1..Len(q)}

\* Ratelimit-Remaining and Ratelimit-Reset of a response; a response whose
\* headers are not drawn reports an ample budget
Headers(resp) ==
    IF "remaining" \in DOMAIN resp THEN <<resp.remaining, resp.reset>>
    ELSE <<RateLimitLowWater + 1, 0>>

\* The call as logged: what was asked, what came back with which rate-limit
\* headers, and how many samples the Update had sent when it was made.
Call(op, arg, channel, resp) ==
    [op |-> op, arg |-> arg, channel |-> channel, kind |-> resp.kind,
     status |-> resp.status, msg |-> resp.msg, sent |-> Len(ch),
     remaining |-> Headers(resp)[1], reset |-> Headers(resp)[2]]

\* A behaviour is followed until its last Update has returned.
Observed ==
    \/ active # "none"
    \/ scrapes < MaxScrapes
    \/ (last = "uptime" /\ scrapes < MaxUptimeScrapes)

\* The clock and the remote's streams change on their own.
Tick ==
    /\ ~crashed
    /\ Observed
    /\ now < MaxTime
    /\ now' = now + 1
    /\ UNCHANGED <<channelNames, chatVars, chattersVars, uptimeVars, streams,
                   clipsVars, exporterVars, scrapeVars>>

\* A stream that went live before the exporter started.
AlreadyLive(c) ==
    /\ ~crashed
    /\ scrapes = 0
    /\ now = 1
    /\ streams[c] = Offline
    /\ streams' = [streams EXCEPT ![c] = 0]
    /\ UNCHANGED <<channelNames, chatVars, chattersVars, uptimeVars, now,
                   clipsVars, exporterVars, scrapeVars>>

GoLive(c) ==
    /\ ~crashed
    /\ Observed
    /\ streams[c] = Offline
    /\ streams' = [streams EXCEPT ![c] = now]
    /\ UNCHANGED <<channelNames, chatVars, chattersVars, uptimeVars, now,
                   clipsVars, exporterVars, scrapeVars>>

GoOffline(c) ==
    /\ ~crashed
    /\ Observed
    /\ streams[c] # Offline
    /\ streams' = [streams EXCEPT ![c] = Offline]
    /\ UNCHANGED <<channelNames, chatVars, chattersVars, uptimeVars, now,
                   clipsVars, exporterVars, scrapeVars>>

\* ------------------------------ chatters (channel_chatters_total.go)
\* GetUsers(Logins: logins): the users of a non-200 response are empty
GetUsersResponses(logins) ==
    {With(Failed, "users", {})}
      \cup {With(r, "users", {}) : r \in Non2xx}
      \cup {With(Ok, "users", us) : us \in SUBSET Range(logins)}

NewChannelChattersTotalCollector(resp) ==
    /\ ~crashed
    /\ chattersCollector.state = "unbuilt"
    /\ IF resp.kind = "err"
         THEN /\ chattersCollector' = [state |-> "failed", err |-> TransportErr]
              /\ UNCHANGED channelIDmap
         ELSE /\ chattersCollector' = [state |-> "built", err |-> "nil"]
              /\ channelIDmap' = [c \in resp.users |-> UserID[c]]
    /\ UNCHANGED <<channelNames, chatVars, ctu, uptimeVars, envVars, clipsVars,
                   exporterVars, scrapeVars>>

GetChannelChatChattersResponses ==
    {With(Failed, "total", 0)}
      \cup {With(r, "total", 0) : r \in Non2xxMsg}
      \cup {With(Ok, "total", t) : t \in Totals}

\* c.channelIDmap[channelName]: the empty string when the name is absent
IDOf(channelName) ==
    IF channelName \in DOMAIN channelIDmap THEN channelIDmap[channelName] ELSE ""

\* The error Update returns for a chatters response ("nil": none), checked
\* without the status code
ChattersFailure_NoStatus(resp) ==
    IF resp.kind = "err" THEN TransportErr ELSE "nil"

\* The error Update returns for a chatters response ("nil": none)
ChattersFailure(resp) ==
    IF resp.kind = "err" THEN TransportErr
    ELSE IF resp.status # 200 THEN resp.msg
    ELSE "nil"

\* Update: the empty-list check
Chatters_Update_Begin ==
    /\ BeginUpdate("chatters")
    /\ chattersCollector.state = "built"
    /\ calls' = << >>
    /\ IF NoChannels
         THEN /\ ret' = ErrNoData
              /\ UNCHANGED <<active, ctu>>
         ELSE /\ ret' = "running"
              /\ active' = "chatters"
              /\ ctu' = [i |-> 1]
    /\ UNCHANGED <<channelNames, chatVars, chattersCollector, channelIDmap,
                   uptimeVars, envVars, clipsVars, exporterVars, crashed>>

\* Update: one turn of the loop over channelNames - the remote call, the two
\* failure returns, the sample; return nil after the last channel
Chatters_Update_Channel(resp) ==
    /\ ~crashed
    /\ active = "chatters"
    /\ LET channelName == channelNames[ctu.i]
           err == ChattersFailure(resp)
       IN
       /\ calls' = Append(calls, Call("GetChannelChatChatters",
                                      IDOf(channelName), channelName, resp))
       /\ IF err # "nil"
            THEN /\ ret' = err
                 /\ active' = "none"
                 /\ ctu' = [i |-> 0]
                 /\ UNCHANGED ch
            ELSE /\ ch' = Append(ch, Sample("channel_chatters_total",
                                            channelName, resp.total))
                 /\ IF ctu.i < Len(channelNames)
                      THEN /\ ctu' = [i |-> ctu.i + 1]
                           /\ UNCHANGED <<active, ret>>
                      ELSE /\ ctu' = [i |-> 0]
                           /\ active' = "none"
                           /\ ret' = "nil"
    /\ UNCHANGED <<channelNames, chatVars, chattersCollector, channelIDmap,
                   uptimeVars, envVars, clipsVars, exporterVars, last, scrapes,
                   crashed>>

\* ---------------------------------------- uptime (channel_uptime.go)
\* GetStreams(UserLogins: logins): the live streams among the logins
LiveStreams(logins) ==
    LET on == SelectSeq(logins, LAMBDA c : streams[c] # Offline) IN
    [i \in 1..Len(on) |-> [UserName |-> on[i], StartedAt |-> streams[on[i]]]]

GetStreamsResponses(logins) ==
    {With(Failed, "streams", << >>)}
      \cup {With(r, "streams", << >>) : r \in Non2xx}
      \cup {With(Ok, "streams", LiveStreams(logins))}

\* Update: the empty-list check, GetStreams, the return on a transport error
Uptime_Update_Begin(resp) ==
    /\ BeginUpdate("uptime")
    /\ IF NoChannels
         THEN /\ ret' = ErrNoData
              /\ calls' = << >>
              /\ UNCHANGED <<active, upt>>
         ELSE /\ calls' = <<With(Call("GetStreams", "UserLogins", "", resp),
                                 "streams", resp.streams)>>
              /\ IF resp.kind = "err"
                   THEN /\ ret' = TransportErr
                        /\ UNCHANGED <<active, upt>>
                   ELSE /\ ret' = "running"
                        /\ active' = "uptime"
                        /\ upt' = [upt EXCEPT !.pc = "loop",
                                              !.streams = resp.streams]
    /\ UNCHANGED <<channelNames, chatVars, chattersVars, concVars, firstPush, lastScrape,
                   envVars, clipsVars, exporterVars, crashed>>

\* What the samples sent so far for the stream's session add up to: nothing
\* for a channel not pushed before or pushed in another session
SessionTotal(s) ==
    IF s.UserName \in DOMAIN upt.seen /\ upt.seen[s.UserName] = s.StartedAt
      THEN upt.total[s.UserName]
      ELSE 0

\* The value of the sample this step sends, 0 if it sends none
SentNow == IF Len(ch') > Len(ch) THEN ch'[Len(ch')].value ELSE 0

\* Update pushing a channel only the first time
Uptime_Update_Stream_FirstOnly ==
    /\ ~crashed
    /\ active = "uptime"
    /\ upt.streams # << >>
    /\ LET s == Head(upt.streams) IN
       IF s.UserName \notin firstPush
         THEN /\ firstPush' = firstPush \cup {s.UserName}
              /\ ch' = Append(ch, Sample("channel_uptime_total", s.UserName,
                                         now - s.StartedAt))
         ELSE UNCHANGED <<firstPush, ch>>
    /\ LET s == Head(upt.streams) IN
       upt' = [upt EXCEPT !.streams = Tail(@),
                          !.seen = MapSet(@, s.UserName, s.StartedAt),
                          !.absent = @ \ {s.UserName},
                          !.total = MapSet(@, s.UserName,
                                           SessionTotal(s) + SentNow)]
    /\ UNCHANGED <<channelNames, chatVars, chattersVars, concVars, lastScrape, envVars,
                   clipsVars, exporterVars, active, ret, last, scrapes, calls,
                   crashed>>

\* Update: one live stream of the response - the first push of a channel is
\* the time since the stream started, a later one the time since lastScrape
Uptime_Update_Stream ==
    /\ ~crashed
    /\ active = "uptime"
    /\ upt.streams # << >>
    /\ LET s == Head(upt.streams) IN
       IF s.UserName \notin firstPush
         THEN /\ firstPush' = firstPush \cup {s.UserName}
              /\ ch' = Append(ch, Sample("channel_uptime_total", s.UserName,
                                         now - s.StartedAt))
         ELSE /\ ch' = Append(ch, Sample("channel_uptime_total", s.UserName,
                                         now - lastScrape))
              /\ UNCHANGED firstPush
    /\ LET s == Head(upt.streams) IN
       upt' = [upt EXCEPT !.streams = Tail(@),
                          !.seen = MapSet(@, s.UserName, s.StartedAt),
                          !.absent = @ \ {s.UserName},
                          !.total = MapSet(@, s.UserName,
                                           SessionTotal(s) + SentNow)]
    /\ UNCHANGED <<channelNames, chatVars, chattersVars, concVars, lastScrape, envVars,
                   clipsVars, exporterVars, active, ret, last, scrapes, calls,
                   crashed>>

\* Update: after the loop, lastScrape = time.Now(); return nil
Uptime_Update_End ==
    /\ ~crashed
    /\ active = "uptime"
    /\ upt.streams = << >>
    /\ lastScrape' = now
    /\ LET ok == calls[1].status = 200
           live == {calls[1].streams[i].UserName : i \in 1..Len(calls[1].streams)}
       IN
       upt' = [upt EXCEPT !.pc = "idle",
                          !.okAt = IF ok THEN now ELSE @,
                          !.absent = IF ok THEN @ \cup (DOMAIN upt.seen \ live)
                                     ELSE @]
    /\ active' = "none"
    /\ ret' = "nil"
    /\ UNCHANGED <<channelNames, chatVars, chattersVars, concVars, firstPush, envVars,
                   clipsVars, exporterVars, ch, last, scrapes, calls, crashed>>

\* ------------------------- identity lookup and clips (unnamed/part_001)
\* cache.DefaultCache.Get: the entry, unless it is older than the TTL
CacheHit(username) ==
    /\ username \in DOMAIN userCache
    /\ now - userCache[username].stored < CacheTTL

\* json.Marshal of a user and json.Unmarshal of cached data
Marshal(user) == <<"json", user>>

Unmarshal(data) == data[2]

\* cache.DefaultCache.Set
CacheSet(username, data) ==
    [x \in DOMAIN userCache \cup {username} |->
        IF x = username THEN [data |-> data, stored |-> now] ELSE userCache[x]]

\* GetUserByUsername that never reads the cache
GetUserByUsername_NoCacheRead(username, getFails, resp, setFails) ==
    IF getFails
      THEN [user |-> NilUser, called |-> FALSE, cache |-> userCache,
            get |-> "error", set |-> "none",
            err |-> "could not retrieve user by username from cache"]
    ELSE IF resp.kind = "err"
      THEN [user |-> NilUser, called |-> TRUE, cache |-> userCache,
            get |-> "miss", set |-> "none",
            err |-> "failed to collect users stats from Twitch helix API"]
    ELSE IF resp.status # 200
      THEN [user |-> NilUser, called |-> TRUE, cache |-> userCache,
            get |-> "miss", set |-> "none",
            err |-> "failed to get user by id from Twitch helix API"]
    ELSE IF resp.users = {}
      THEN [user |-> NilUser, called |-> TRUE, cache |-> userCache,
            get |-> "miss", set |-> "none", err |-> "nil"]
    ELSE [user |-> username, called |-> TRUE, err |-> "nil", get |-> "miss",
          set |-> IF setFails THEN "failed" ELSE "ok",
          cache |-> IF setFails THEN userCache
                    ELSE CacheSet(username, Marshal(username))]

\* GetUserByUsername that caches an empty result
GetUserByUsername_CacheEmpty(username, getFails, resp, setFails) ==
    IF getFails
      THEN [user |-> NilUser, called |-> FALSE, cache |-> userCache,
            get |-> "error", set |-> "none",
            err |-> "could not retrieve user by username from cache"]
    ELSE IF CacheHit(username)
      THEN [user |-> Unmarshal(userCache[username].data), called |-> FALSE,
            cache |-> userCache, get |-> "hit", set |-> "none", err |-> "nil"]
    ELSE IF resp.kind = "err"
      THEN [user |-> NilUser, called |-> TRUE, cache |-> userCache,
            get |-> "miss", set |-> "none",
            err |-> "failed to collect users stats from Twitch helix API"]
    ELSE IF resp.status # 200
      THEN [user |-> NilUser, called |-> TRUE, cache |-> userCache,
            get |-> "miss", set |-> "none",
            err |-> "failed to get user by id from Twitch helix API"]
    ELSE IF resp.users = {}
      THEN [user |-> NilUser, called |-> TRUE, get |-> "miss", set |-> "ok",
            cache |-> CacheSet(username, Marshal(NilUser)), err |-> "nil"]
    ELSE [user |-> username, called |-> TRUE, err |-> "nil", get |-> "miss",
          set |-> IF setFails THEN "failed" ELSE "ok",
          cache |-> IF setFails THEN userCache
                    ELSE CacheSet(username, Marshal(username))]

\* GetUserByUsername that gives up when the cache Set fails
GetUserByUsername_SetFatal(username, getFails, resp, setFails) ==
    IF getFails
      THEN [user |-> NilUser, called |-> FALSE, cache |-> userCache,
            get |-> "error", set |-> "none",
            err |-> "could not retrieve user by username from cache"]
    ELSE IF CacheHit(username)
      THEN [user |-> Unmarshal(userCache[username].data), called |-> FALSE,
            cache |-> userCache, get |-> "hit", set |-> "none", err |-> "nil"]
    ELSE IF resp.kind = "err"
      THEN [user |-> NilUser, called |-> TRUE, cache |-> userCache,
            get |-> "miss", set |-> "none",
            err |-> "failed to collect users stats from Twitch helix API"]
    ELSE IF resp.status # 200
      THEN [user |-> NilUser, called |-> TRUE, cache |-> userCache,
            get |-> "miss", set |-> "none",
            err |-> "failed to get user by id from Twitch helix API"]
    ELSE IF resp.users = {}
      THEN [user |-> NilUser, called |-> TRUE, cache |-> userCache,
            get |-> "miss", set |-> "none", err |-> "nil"]
    ELSE IF setFails
      THEN [user |-> NilUser, called |-> TRUE, cache |-> userCache,
            get |-> "miss", set |-> "failed",
            err |-> "could not cache user response"]
    ELSE [user |-> username, called |-> TRUE, err |-> "nil", get |-> "miss",
          set |-> "ok", cache |-> CacheSet(username, Marshal(username))]

\* twitch.GetUserByUsername: the user (NilUser: nil), the error ("nil":
\* none), whether GetUsers was called, how the cache Get and Set went, and
\* the cache afterwards. getFails and setFails are the cache failing on Get
\* (other than a miss) and on Set (or json.Marshal failing before it).
GetUserByUsername(username, getFails, resp, setFails) ==
    IF getFails
      THEN [user |-> NilUser, called |-> FALSE, cache |-> userCache,
            get |-> "error", set |-> "none",
            err |-> "could not retrieve user by username from cache"]
    ELSE IF CacheHit(username)
      THEN [user |-> Unmarshal(userCache[username].data), called |-> FALSE,
            cache |-> userCache, get |-> "hit", set |-> "none", err |-> "nil"]
    ELSE IF resp.kind = "err"
      THEN [user |-> NilUser, called |-> TRUE, cache |-> userCache,
            get |-> "miss", set |-> "none",
            err |-> "failed to collect users stats from Twitch helix API"]
    ELSE IF resp.status # 200
      THEN [user |-> NilUser, called |-> TRUE, cache |-> userCache,
            get |-> "miss", set |-> "none",
            err |-> "failed to get user by id from Twitch helix API"]
    ELSE IF resp.users = {}
      THEN [user |-> NilUser, called |-> TRUE, cache |-> userCache,
            get |-> "miss", set |-> "none", err |-> "nil"]
    ELSE [user |-> username, called |-> TRUE, err |-> "nil", get |-> "miss",
          set |-> IF setFails THEN "failed" ELSE "ok",
          cache |-> IF setFails THEN userCache
                    ELSE CacheSet(username, Marshal(username))]

\* GetClips(BroadcasterID, After: cursor); cursor 0 is the empty cursor, and
\* the remote chains at most MaxPages pages
GetClipsResponses(cursor) ==
    {With(With(Failed, "clips", 0), "cursor", 0)}
      \cup {With(With(r, "clips", 0), "cursor", 0) : r \in Non2xx}
      \cup {With(With(Ok, "clips", n), "cursor", k) :
              n \in PageSizes,
              k \in {0} \cup (IF cursor + 1 < MaxPages THEN {cursor + 1} ELSE {})}

\* getClipsCount keeping only the last page's size
GetClipsCount_NoAccumulate(resp, count) ==
    IF resp.kind = "err"
      THEN [returns |-> TRUE, count |-> 0, err |-> TransportErr, cursor |-> 0]
    ELSE IF resp.status # 200
      THEN [returns |-> TRUE, count |-> 0, err |-> "nil", cursor |-> 0]
    ELSE IF resp.cursor # 0
      THEN [returns |-> FALSE, count |-> resp.clips, err |-> "nil",
            cursor |-> resp.cursor]
    ELSE [returns |-> TRUE, count |-> resp.clips, err |-> "nil", cursor |-> 0]

\* getClipsCount returning after its first page whatever the cursor
GetClipsCount_FirstPageOnly(resp, count) ==
    IF resp.kind = "err"
      THEN [returns |-> TRUE, count |-> 0, err |-> TransportErr, cursor |-> 0]
    ELSE IF resp.status # 200
      THEN [returns |-> TRUE, count |-> 0, err |-> "nil", cursor |-> 0]
    ELSE [returns |-> TRUE, count |-> count + resp.clips, err |-> "nil",
          cursor |-> 0]

\* getClipsCount, one call deep: whether it returns or recurses with the
\* page's cursor, and the count and error ("nil": none) it carries
GetClipsCount(resp, count) ==
    IF resp.kind = "err"
      THEN [returns |-> TRUE, count |-> 0, err |-> TransportErr, cursor |-> 0]
    ELSE IF resp.status # 200
      \* return 0, err - with the err of the call, which is nil here
      THEN [returns |-> TRUE, count |-> 0, err |-> "nil", cursor |-> 0]
    ELSE IF resp.cursor # 0
      THEN [returns |-> FALSE, count |-> count + resp.clips, err |-> "nil",
            cursor |-> resp.cursor]
    ELSE [returns |-> TRUE, count |-> count + resp.clips, err |-> "nil",
          cursor |-> 0]

\* Update: the empty-list check, then the GetUsers call whose result is only
\* logged
Clips_Update_Begin(resp) ==
    /\ BeginUpdate("clips")
    /\ IF NoChannels
         THEN /\ ret' = ErrNoData
              /\ calls' = << >>
              /\ UNCHANGED <<active, clp>>
         ELSE /\ calls' = <<Call("GetUsers", "timthetatman", "", resp)>>
              /\ ret' = "running"
              /\ active' = "clips"
              /\ clp' = [pc |-> "lookup", i |-> 1, user |-> "", cursor |-> 0,
                         count |-> 0]
    /\ UNCHANGED <<channelNames, chatVars, chattersVars, uptimeVars, envVars,
                   userCache, lookup, exporterVars, crashed>>

\* The loop moves on to the next channel, or Update returns nil
Clips_Continue ==
    IF clp.i < Len(channelNames)
      THEN /\ clp' = [pc |-> "lookup", i |-> clp.i + 1, user |-> "",
                      cursor |-> 0, count |-> 0]
           /\ UNCHANGED <<active, ret>>
      ELSE /\ clp' = [pc |-> "idle", i |-> 0, user |-> "", cursor |-> 0,
                      count |-> 0]
           /\ active' = "none"
           /\ ret' = "nil"

\* Update: GetUserByUsername for the channel; an error skips the channel, a
\* nil user with a nil error is dereferenced by user.ID
Clips_Update_Lookup(getFails, setFails) ==
    /\ ~crashed
    /\ active = "clips"
    /\ clp.pc = "lookup"
    /\ \E resp \in GetUsersResponses(<<channelNames[clp.i]>>) :
       LET channel == channelNames[clp.i]
           r == GetUserByUsername(channel, getFails, resp, setFails)
       IN
       /\ calls' = IF r.called
                     THEN Append(calls, With(Call("GetUsers", channel, channel,
                                                  resp),
                                             "users", resp.users))
                     ELSE calls
       /\ userCache' = r.cache
       /\ lookup' = [n |-> scrapes, i |-> clp.i, username |-> channel,
                     get |-> r.get, set |-> r.set, user |-> r.user,
                     err |-> r.err]
       /\ IF r.err # "nil"
            THEN Clips_Continue /\ UNCHANGED crashed
          ELSE IF r.user = NilUser
            THEN crashed' = TRUE /\ UNCHANGED <<clp, active, ret>>
          ELSE /\ clp' = [clp EXCEPT !.pc = "clips", !.user = r.user]
               /\ UNCHANGED <<active, ret, crashed>>
    /\ UNCHANGED <<channelNames, chatVars, chattersVars, uptimeVars, envVars,
                   exporterVars, ch, last, scrapes>>

\* Update: one GetClips page of getClipsCount; when getClipsCount returns,
\* its error skips the channel, otherwise its count is sent
Clips_Update_GetClips(resp) ==
    /\ ~crashed
    /\ active = "clips"
    /\ clp.pc = "clips"
    /\ LET channel == channelNames[clp.i]
           r == GetClipsCount(resp, clp.count)
       IN
       /\ calls' = Append(calls, With(With(Call("GetClips", clp.cursor, channel,
                                                 resp),
                                            "clips", resp.clips),
                                       "next", resp.cursor))
       /\ IF ~r.returns
            THEN /\ clp' = [clp EXCEPT !.cursor = r.cursor, !.count = r.count]
                 /\ UNCHANGED <<active, ret, ch>>
          ELSE IF r.err # "nil"
            THEN Clips_Continue /\ UNCHANGED ch
          ELSE /\ ch' = Append(ch, Sample("channel_clips_total", clp.user,
                                          r.count))
               /\ Clips_Continue
    /\ UNCHANGED <<channelNames, chatVars, chattersVars, uptimeVars, envVars,
                   userCache, lookup, exporterVars, last, scrapes, crashed>>

\* ------------------------------------- Exporter (twitch_exporter.go)
SampleG(family, label, game, value) ==
    [family |-> family, label |-> label, game |-> game, value |-> value]

\* GameIdCache.Has
Has(g, id) == id \in DOMAIN g

\* GameIdCache.GetName: the name, or "" for nil
GetName(g, id) == IF Has(g, id) THEN g[id].Name ELSE ""

\* GameIdCache.prune: items stored PruneAge ago or earlier are deleted
Prune(g) == [id \in {x \in DOMAIN g : now - g[x].Stored < PruneAge} |-> g[id]]

\* GameIdCache.Add
GameIdCache_Add(g, id, name) ==
    IF Has(g, id) THEN g
    ELSE Prune([x \in DOMAIN g \cup {id} |->
                  IF x = id THEN [Stored |-> now, Name |-> name] ELSE g[x]])

\* GetGames(IDs: {id}): a non-200 response has no games; a 200 response has
\* the game, or none for an unknown id
GetGamesResponses(id) ==
    {With(Failed, "games", << >>)}
      \cup {With(r, "games", << >>) : r \in Non2xx}
      \cup {With(Ok, "games", gs) : gs \in {<< >>, <<GameName[id]>>}}

\* GetTopGames
GetTopGamesResponses ==
    {With(Failed, "games", << >>)}
      \cup {With(r, "games", << >>) : r \in Non2xx}
      \cup {With(Ok, "games", gs) : gs \in {<<"g1">>, <<"g1", "g2">>}}

\* The rate-limit headers a response may carry: an ample budget, or a budget
\* at the low-water mark with a reset time that has passed or is to come
RateLimits ==
    {<<RateLimitLowWater + 1, 0>>,
     <<RateLimitLowWater, now - 1>>,
     <<RateLimitLowWater, IF now < MaxTime THEN now + 1 ELSE now>>}

\* GetStreams(GameIDs: {id}, Type: live) with its rate-limit headers
GetGameStreamsResponses(id) ==
    {With(With(With(Failed, "streams", << >>), "remaining", 0), "reset", 0)}
      \cup {With(With(With(r, "streams", << >>), "remaining", rl[1]), "reset", rl[2]) :
              r \in Non2xx, rl \in RateLimits}
      \cup {With(With(With(Ok, "streams", ss), "remaining", rl[1]), "reset", rl[2]) :
              ss \in {<<[UserName |-> "top", GameName |-> GameName[id]]>>},
              rl \in RateLimits}

\* GetUsers answered 429 Too Many Requests: no user, the budget used up
TooManyRequests ==
    With(With(With([kind |-> "resp", status |-> 429, msg |-> "Too Many Requests"],
                   "users", {}), "remaining", 0),
         "reset", IF now < MaxTime THEN now + 1 ELSE now)

\* GetChannelFollows / GetSubscriptions: the payload of a non-200 is empty
GetChannelFollowsResponses ==
    {With(Failed, "total", 0)}
      \cup {With(r, "total", 0) : r \in Non2xx}
      \cup {With(Ok, "total", 7)}

GetSubscriptionsResponses ==
    {With(Failed, "subs", << >>)}
      \cup {With(r, "subs", << >>) : r \in Non2xx}
      \cup {With(Ok, "subs", ss) :
              ss \in {<<[Tier |-> "1000", IsGift |-> FALSE],
                       [Tier |-> "1000", IsGift |-> TRUE]>>}}

ColIdle == [pc |-> "idle", streams |-> << >>, users |-> << >>,
            games |-> << >>, channelsLive |-> {}, wake |-> 0]

\* Collect returns early after logging an error
Collect_Return(how) ==
    /\ col' = ColIdle
    /\ active' = "none"
    /\ ret' = how

\* Collect: GetStreams for the configured channels; a transport error or a
\* non-200 status ends the scrape
Collect_Begin(resp) ==
    /\ BeginUpdate("exporter")
    /\ calls' = <<With(Call("GetStreams", "UserLogins", "", resp),
                       "streams", resp.streams)>>
    /\ IF resp.kind = "err" \/ resp.status # 200
         THEN /\ ret' = "aborted"
              /\ UNCHANGED <<active, col>>
         ELSE /\ ret' = "running"
              /\ active' = "exporter"
              /\ col' = [ColIdle EXCEPT !.pc = "streams", !.streams = resp.streams]
    /\ UNCHANGED <<channelNames, chatVars, chattersVars, uptimeVars, envVars,
                   clipsVars, gameIdCache, crashed>>

\* Collect: one live stream - the game name from the cache or from GetGames
\* (Games[0] of its response), then channel_up 1 and the viewers
Collect_Stream ==
    /\ ~crashed
    /\ active = "exporter"
    /\ col.pc = "streams"
    /\ col.streams # << >>
    /\ LET stream == Head(col.streams)
           id == GameOf[stream.UserName]
           cachedName == IF Has(gameIdCache, id) THEN GetName(gameIdCache, id)
                         ELSE ""
       IN
       \E resp \in GetGamesResponses(id) :
         LET asked == cachedName = ""
             gameName == IF ~asked THEN cachedName
                         ELSE IF resp.kind = "err" THEN ""
                         ELSE resp.games[1]
         IN
         /\ calls' = IF asked THEN Append(calls, Call("GetGames", id,
                                                      stream.UserName, resp))
                     ELSE calls
         /\ IF asked /\ resp.kind # "err" /\ resp.games = << >>
              \* index out of range [0] with length 0
              THEN /\ crashed' = TRUE
                   /\ UNCHANGED <<gameIdCache, col, ch>>
              ELSE /\ gameIdCache' =
                        IF asked /\ resp.kind # "err"
                          THEN GameIdCache_Add(gameIdCache, id, gameName)
                          ELSE gameIdCache
                   /\ col' = [col EXCEPT !.streams = Tail(@),
                                         !.channelsLive = @ \cup {stream.UserName}]
                   /\ ch' = ch \o <<SampleG("channel_up", stream.UserName,
                                            gameName, 1),
                                    SampleG("channel_viewers_total",
                                            stream.UserName, gameName, 10)>>
                   /\ UNCHANGED crashed
    /\ UNCHANGED <<channelNames, chatVars, chattersVars, uptimeVars, envVars,
                   clipsVars, active, ret, last, scrapes>>

\* Collect: GetUsers for the configured channels; a transport error ends the
\* scrape, a non-200 status is logged
Collect_Users(resp) ==
    /\ ~crashed
    /\ active = "exporter"
    /\ col.pc = "streams"
    /\ col.streams = << >>
    /\ calls' = Append(calls, With(Call("GetUsers", "Logins", "", resp),
                                   "users", resp.users))
    /\ IF resp.kind = "err"
         THEN Collect_Return("aborted")
         ELSE /\ col' = [col EXCEPT !.pc = "users",
                           !.users = SelectSeq(channelNames,
                                               LAMBDA c : c \in resp.users)]
              /\ UNCHANGED <<active, ret>>
    /\ UNCHANGED <<channelNames, chatVars, chattersVars, uptimeVars, envVars,
                   clipsVars, gameIdCache, ch, last, scrapes, crashed>>

\* The channel_subscribers_total samples of one user
SubSamples(user, subs) ==
    LET gifted == {i \in 1..Len(subs) : subs[i].IsGift}
        plain == {i \in 1..Len(subs) : ~subs[i].IsGift}
    IN (IF gifted = {} THEN << >>
        ELSE <<[family |-> "channel_subscribers_total", label |-> user,
                gifted |-> "true", value |-> Cardinality(gifted)]>>)
       \o (IF plain = {} THEN << >>
           ELSE <<[family |-> "channel_subscribers_total", label |-> user,
                   gifted |-> "false", value |-> Cardinality(plain)]>>)

\* The channel_up sample of the users loop, sent whether or not the user
\* is live
DownSample_Always(user, channelsLive) == <<SampleG("channel_up", user, "", 0)>>

\* The channel_up sample of the users loop: 0 for a user that the streams
\* loop did not mark as live
DownSample(user, channelsLive) ==
    IF user \in channelsLive THEN << >>
    ELSE <<SampleG("channel_up", user, "", 0)>>

\* Collect: one user - GetChannelFollows, channel_up 0 unless live, the
\* followers and views, GetSubscriptions, the subscribers; a transport error
\* of either call ends the scrape
Collect_User(follows, subscriptions) ==
    /\ ~crashed
    /\ active = "exporter"
    /\ col.pc = "users"
    /\ col.users # << >>
    /\ LET user == Head(col.users)
           up == DownSample(user, col.channelsLive)
           counts == <<Sample("channel_followers_total", user, follows.total),
                       Sample("channel_views_total", user, 100)>>
           c1 == Call("GetChannelFollows", UserID[user], user, follows)
       IN
       IF follows.kind = "err"
         THEN /\ calls' = Append(calls, c1)
              /\ Collect_Return("aborted")
              /\ UNCHANGED ch
         ELSE /\ calls' = calls \o
                    <<c1, [Call("GetSubscriptions", UserID[user], user,
                                subscriptions)
                            EXCEPT !.sent = Len(ch) + Len(up) + Len(counts)]>>
              /\ IF subscriptions.kind = "err"
                   THEN /\ ch' = ch \o up \o counts
                        /\ Collect_Return("aborted")
                   ELSE /\ ch' = ch \o up \o counts
                                    \o SubSamples(user, subscriptions.subs)
                        /\ col' = [col EXCEPT !.users = Tail(@)]
                        /\ UNCHANGED <<active, ret>>
    /\ UNCHANGED <<channelNames, chatVars, chattersVars, uptimeVars, envVars,
                   clipsVars, gameIdCache, last, scrapes, crashed>>

\* Collect: GetTopGames; a transport error ends the scrape
Collect_TopGames(resp) ==
    /\ ~crashed
    /\ active = "exporter"
    /\ col.pc = "users"
    /\ col.users = << >>
    /\ calls' = Append(calls, Call("GetTopGames", "", "", resp))
    /\ IF resp.kind = "err"
         THEN Collect_Return("aborted")
         ELSE /\ col' = [col EXCEPT !.pc = "topgames", !.games = resp.games]
              /\ UNCHANGED <<active, ret>>
    /\ UNCHANGED <<channelNames, chatVars, chattersVars, uptimeVars, envVars,
                   clipsVars, gameIdCache, ch, last, scrapes, crashed>>

\* Collect: one top game - it is cached, its live streams are fetched and
\* sent, and with remaining <= 3 the loop sleeps until the reported reset
Collect_TopGame ==
    /\ ~crashed
    /\ active = "exporter"
    /\ col.pc = "topgames"
    /\ col.games # << >>
    /\ \E resp \in GetGameStreamsResponses(Head(col.games)) :
       LET g == Head(col.games) IN
       /\ gameIdCache' = GameIdCache_Add(gameIdCache, g, GameName[g])
       /\ calls' = Append(calls, Call("GetStreams", g, "", resp))
       /\ IF resp.kind = "err"
            THEN /\ Collect_Return("aborted")
                 /\ UNCHANGED ch
            ELSE /\ ch' = ch \o [i \in 1..Len(resp.streams) |->
                                   SampleG("top_games_viewers_total",
                                           resp.streams[i].UserName,
                                           resp.streams[i].GameName, 10)]
                 /\ col' = [col EXCEPT
                              !.games = Tail(@),
                              !.pc = IF resp.remaining <= RateLimitLowWater
                                       THEN "sleep" ELSE "topgames",
                              !.wake = IF resp.remaining <= RateLimitLowWater
                                         THEN resp.reset ELSE 0]
                 /\ UNCHANGED <<active, ret>>
    /\ UNCHANGED <<channelNames, chatVars, chattersVars, uptimeVars, envVars,
                   clipsVars, last, scrapes, crashed>>

\* time.Sleep returning before the wait is over
Collect_Wake_AtOnce ==
    /\ ~crashed
    /\ active = "exporter"
    /\ col.pc = "sleep"
    /\ col' = [col EXCEPT !.pc = "topgames", !.wake = 0]
    /\ UNCHANGED <<channelNames, chatVars, chattersVars, uptimeVars, envVars,
                   clipsVars, gameIdCache, scrapeVars>>

\* time.Sleep(secsToWait) returns: at once for a wait that is not positive
Collect_Wake ==
    /\ ~crashed
    /\ active = "exporter"
    /\ col.pc = "sleep"
    /\ now >= col.wake
    /\ col' = [col EXCEPT !.pc = "topgames", !.wake = 0]
    /\ UNCHANGED <<channelNames, chatVars, chattersVars, uptimeVars, envVars,
                   clipsVars, gameIdCache, scrapeVars>>

\* Collect: after the last top game, the scrape is complete
Collect_End ==
    /\ ~crashed
    /\ active = "exporter"
    /\ col.pc = "topgames"
    /\ col.games = << >>
    /\ Collect_Return("nil")
    /\ UNCHANGED <<channelNames, chatVars, chattersVars, uptimeVars, envVars,
                   clipsVars, gameIdCache, ch, last, scrapes, calls, crashed>>

NextExporter ==
    \/ \E resp \in GetStreamsResponses(channelNames) : Collect_Begin(resp)
    \/ Collect_Stream
    \/ \E resp \in GetUsersResponses(channelNames) \cup {TooManyRequests} :
          Collect_Users(resp)
    \/ \E f \in GetChannelFollowsResponses, sb \in GetSubscriptionsResponses :
          Collect_User(f, sb)
    \/ \E resp \in GetTopGamesResponses : Collect_TopGames(resp)
    \/ Collect_TopGame
    \/ Collect_Wake
    \/ Collect_End

NextChatters ==
    \/ \E resp \in GetUsersResponses(channelNames) :
          NewChannelChattersTotalCollector(resp)
    \/ Chatters_Update_Begin
    \/ \E resp \in GetChannelChatChattersResponses : Chatters_Update_Channel(resp)

NextEnv ==
    \/ Tick
    \/ \E c \in Channels : AlreadyLive(c)
    \/ \E c \in Channels : GoLive(c)
    \/ \E c \in Channels : GoOffline(c)

NextUptime ==
    \/ \E resp \in GetStreamsResponses(channelNames) : Uptime_Update_Begin(resp)
    \/ Uptime_Update_Stream
    \/ Uptime_Update_End

NextClips ==
    \/ \E resp \in GetUsersResponses(<<"timthetatman">>) : Clips_Update_Begin(resp)
    \/ \E getFails \in BOOLEAN, setFails \in BOOLEAN :
          Clips_Update_Lookup(getFails, setFails)
    \/ \E resp \in GetClipsResponses(clp.cursor) : Clips_Update_GetClips(resp)

SpecChatters == Init /\ [][NextChatters]_vars
SpecUptime == Init /\ [][NextEnv \/ NextUptime]_vars
SpecClips == Init /\ [][Tick \/ NextClips]_vars
SpecExporter ==
    Init /\ [][Tick \/ (\E c \in Channels : AlreadyLive(c)) \/ NextExporter]_vars

\* The exporter with at most one configured channel
InitCollect == Init /\ Len(channelNames) <= 1

SpecCollect ==
    InitCollect
      /\ [][Tick \/ (\E c \in Channels : AlreadyLive(c)) \/ NextExporter]_vars

\* The exporter with no configured channel: the top-games part of Collect
InitTopGames == Init /\ channelNames = << >>

NextTopGames ==
    \/ \E resp \in GetStreamsResponses(channelNames) : Collect_Begin(resp)
    \/ \E resp \in GetUsersResponses(channelNames) \cup {TooManyRequests} :
          Collect_Users(resp)
    \/ \E resp \in GetTopGamesResponses : Collect_TopGames(resp)
    \/ Collect_TopGame
    \/ Collect_Wake
    \/ Collect_End

SpecTopGames == InitTopGames /\ [][Tick \/ NextTopGames]_vars

\* ------------------------------------------------------------------------
\* Properties of the chat-message counter and its collector
\* ------------------------------------------------------------------------
SamplesOf(family) == {i \in 1..Len(ch) : ch[i].family = family}

ChatUpdateDone ==
    /\ ~crashed
    /\ last = "chat_messages"
    /\ active = "none"
    /\ ret = "nil"

AddsAtRest == \A d \in Deliverers : add[d].pc = "idle"

\* C1: N events for one identity racing with one scrape (Update reads each
\* count, emits it, then calls Reset): once the scrape has returned and every
\* Add has completed, the value emitted plus the count left in the map equals
\* N, for every identity - no increment is lost or counted twice.
C1_NoIncrementLost ==
    (ChatUpdateDone /\ scrapes = 1 /\ AddsAtRest)
        => \A u \in Identities :
              emitted[u] + Count(chatMessages, u) = added[u]

\* C2: the scrape path's accesses to the map (the iteration and the reads of
\* counts in Update) are mutually excluded from the writes of Add: Update is
\* never at its map read while an Add is at its map write.
C2_UpdateExcludesAdd ==
    ~(active = "chat_messages" /\ upd.pc = "range"
      /\ \E d \in Deliverers : add[d].pc = "write")

\* A second scrape has returned, and no increment was written since the
\* previous scrape began.
QuiescedSecondScrape ==
    /\ ChatUpdateDone
    /\ prevQuiet
    /\ addsSince = 0

\* C3 (as claimed): draining a quiesced counter is idempotent - a second
\* scrape with no event delivered in between emits no chat-message sample.
C3_SecondDrainEmpty ==
    QuiescedSecondScrape => ch = << >>

\* C3 (amended): a second scrape with no event delivered in between emits,
\* for every identity counted before the first scrape, exactly one sample,
\* with value 0, and no other sample.
C3_SecondDrainZeroes ==
    QuiescedSecondScrape =>
        /\ \A i \in 1..Len(ch) :
              /\ ch[i].family = "channel_chat_messages_total"
              /\ ch[i].value = 0
              /\ added[ch[i].label] > 0
        /\ \A u \in Identities :
              added[u] > 0 => Cardinality({i \in 1..Len(ch) : ch[i].label = u}) = 1

C3_Witness ==
    /\ QuiescedSecondScrape
    /\ \E u \in Identities : added[u] > 1
    /\ Len(ch) = Cardinality(Identities)

\* C5: with eventsub.DefaultClient nil the constructor fails with
\* ErrEventsubDefaultClientNotSet, returns no collector and registers no
\* callback; a collector is returned only with the channel.chat.message
\* callback registered.
C5_RefusesWithoutClient ==
    /\ (chatCollector.state # "unbuilt" /\ ~defaultClient) =>
          /\ chatCollector.state = "failed"
          /\ chatCollector.err = ErrEventsubDefaultClientNotSet
          /\ callbacks = {}
    /\ chatCollector.state = "failed" =>
          chatCollector.err = ErrEventsubDefaultClientNotSet /\ callbacks = {}
    /\ chatCollector.state = "built" => ChatMessageEvent \in callbacks

C5_Witness ==
    /\ ~defaultClient
    /\ chatCollector.state = "failed"

\* ------------------------------------------------------------------------
\* An exporter configured with no channel: the three collectors that poll
\* the configured list, and the events that fill the counter map
\* ------------------------------------------------------------------------
InitNoData == Init /\ channelNames = << >>

NextNoData ==
    \/ \E ok \in BOOLEAN : EventsubNew(ok)
    \/ NewChannelChatMessagesCollector
    \/ \E d \in Deliverers, p \in Identities \cup {Malformed} : Callback(d, p)
    \/ \E d \in Deliverers : Add_Lock(d)
    \/ \E d \in Deliverers : Add_Write(d)
    \/ \E d \in Deliverers : Add_Unlock(d)
    \/ ChatMessages_Update_Begin
    \/ \E resp \in GetUsersResponses(channelNames) :
          NewChannelChattersTotalCollector(resp)
    \/ Chatters_Update_Begin
    \/ \E resp \in GetStreamsResponses(channelNames) : Uptime_Update_Begin(resp)

SpecNoData == InitNoData /\ [][NextNoData]_vars

\* C4: with an empty configured channel list, an Update of the chat-messages,
\* chatters or uptime collector has returned ErrNoData as soon as it was
\* called, has made no remote call and has sent no sample, whatever the
\* counter map holds.
C4_EmptyListIsNoData ==
    (Len(channelNames) = 0 /\ last \in {"chat_messages", "chatters", "uptime"})
        => /\ active = "none"
           /\ ret = ErrNoData
           /\ ch = << >>
           /\ calls = << >>

\* C4 witness: the chat-messages Update returned ErrNoData over a counter map
\* that holds a count, after the other two collectors' Updates
C4_Witness ==
    /\ Len(channelNames) = 0
    /\ last = "chat_messages"
    /\ scrapes > 1
    /\ ret = ErrNoData
    /\ \E u \in Identities : Count(chatMessages, u) > 0

\* ------------------------------------------------------------------------
\* Properties of failing remote calls
\* ------------------------------------------------------------------------
\* C6: when a scrape's producer gives up on an error, none of the samples it
\* had already sent is in the scrape's output.
C6_PartialOutputDropped ==
    (last = "exporter" /\ active = "none" /\ ret = "aborted") => ch = << >>

\* C7: no remote outcome brings a scrape to a nil dereference or an
\* out-of-range index.
C7_NoRemoteOutcomeCrashes == ~crashed

\* C8: a remote call made for a channel by a clips Update that failed with a
\* transport error is the Update's last call; the Update has returned an
\* error and has sent no sample since.
C8_TransportErrorAborts ==
    \A i \in 1..Len(calls) :
        (last = "clips" /\ calls[i].channel # "" /\ calls[i].kind = "err")
            => /\ i = Len(calls)
               /\ active = "none"
               /\ ret \notin {"nil", "running"}
               /\ Len(ch) = calls[i].sent

\* C9: a GetChannelChatChatters response with a non-200 status is the chatters
\* Update's last call; the Update has returned an error whose text is the
\* response's error message, and no sample carries that channel or a later
\* one of the list.
C9_Non2xxChattersFails ==
    \A i \in 1..Len(calls) :
        (/\ last = "chatters"
         /\ calls[i].op = "GetChannelChatChatters"
         /\ calls[i].kind = "resp"
         /\ calls[i].status # 200)
            => /\ i = Len(calls)
               /\ active = "none"
               /\ ret # "nil"
               /\ ret = calls[i].msg
               /\ Len(ch) = calls[i].sent
               /\ \A j \in 1..Len(ch), k \in i..Len(channelNames) :
                     ch[j].label # channelNames[k]

\* C9 witness: the second channel's response was a non-200 one, after the
\* first channel's sample was sent
C9_Witness ==
    /\ last = "chatters"
    /\ active = "none"
    /\ Len(calls) = 2
    /\ calls[2].kind = "resp"
    /\ calls[2].status # 200
    /\ Len(ch) = 1

\* C10: no clips sample is sent for a channel one of whose GetClips pages came
\* back with a non-200 status.
C10_Non2xxClipsNoSample ==
    \A i \in 1..Len(calls) :
        (/\ last = "clips"
         /\ calls[i].op = "GetClips"
         /\ calls[i].kind = "resp"
         /\ calls[i].status # 200)
            => \A j \in 1..Len(ch) : ch[j].label # calls[i].channel

\* ------------------------------------------------------------------------
\* Properties of the uptime collector
\* ------------------------------------------------------------------------
\* The uptime Update whose GetStreams response had a non-200 status
UptimeNon2xx ==
    /\ last = "uptime"
    /\ calls # << >>
    /\ calls[1].kind = "resp"
    /\ calls[1].status # 200

\* C11: in every step of an uptime Update whose GetStreams response had a
\* non-200 status, firstPush and lastScrape stay as they were, no sample is
\* sent, and once the Update has returned it has returned an error.
C11_Non2xxUptimeFails ==
    [][UptimeNon2xx' =>
          /\ firstPush' = firstPush
          /\ lastScrape' = lastScrape
          /\ ch' = << >>
          /\ (active' = "none" => ret' \notin {"nil", "running"})]_vars

\* ------------------------------------------------------------------------
\* Properties of the clips pagination walk
\* ------------------------------------------------------------------------
\* One channel, its lookups and its page walks
InitPages == Init /\ channelNames = <<"c1">>

SpecPages == InitPages /\ [][NextClips]_vars

\* The GetClips calls the current Update made for a channel, in order
PagesOf(c) == SelectSeq(calls, LAMBDA r : r.op = "GetClips" /\ r.channel = c)

RECURSIVE SumClips(_)
SumClips(pages) ==
    IF pages = << >> THEN 0 ELSE Head(pages).clips + SumClips(Tail(pages))

\* A chain of successful pages that a page with the empty cursor ended
ChainDone(pages) ==
    /\ pages # << >>
    /\ \A i \in 1..Len(pages) : pages[i].kind = "resp" /\ pages[i].status = 200
    /\ pages[Len(pages)].next = 0

\* C12: when the pages fetched for a channel are a chain of successful pages
\* ended by an empty cursor, the first was asked with the empty cursor, each
\* later one with the cursor the page before it returned, none after the
\* final page, and the one clips sample of the channel carries the sum of the
\* page sizes.
C12_PaginationAccumulates ==
    \A c \in Channels :
        LET pages == PagesOf(c) IN
        (last = "clips" /\ ChainDone(pages))
            => /\ pages[1].arg = 0
               /\ \A i \in 2..Len(pages) : pages[i].arg = pages[i - 1].next
               /\ \A i \in 1..(Len(pages) - 1) : pages[i].next # 0
               /\ \E j \in 1..Len(ch) :
                     /\ ch[j].label = c
                     /\ ch[j].value = SumClips(pages)
                     /\ \A k \in 1..Len(ch) : ch[k].label = c => k = j

\* C12 witness: a chain of three pages was walked and its sample sent
C12_Witness ==
    /\ last = "clips"
    /\ ChainDone(PagesOf("c1"))
    /\ Len(PagesOf("c1")) = 3
    /\ \E j \in 1..Len(ch) : ch[j].label = "c1" /\ ch[j].value > 3

\* ------------------------------------------------------------------------
\* Properties of the rate-limit backoff of Exporter.Collect
\* ------------------------------------------------------------------------
\* A logged call is a GetStreams call of the top-games loop
IsTopGameCall(r) == r.op = "GetStreams" /\ r.arg \in GameIDs

\* The top-games loop has received the response of its latest GetStreams call
\* and has not yet gone on
AfterTopGameResponse ==
    /\ active = "exporter"
    /\ calls # << >>
    /\ IsTopGameCall(calls[Len(calls)])
    /\ calls[Len(calls)].kind = "resp"

\* This step issues the GetStreams call that follows that response
NextTopGameCall ==
    /\ AfterTopGameResponse
    /\ Len(calls') = Len(calls) + 1
    /\ IsTopGameCall(calls'[Len(calls')])

\* The loop can go on without the clock advancing
LoopNotBlocked == ENABLED (Collect_Wake \/ Collect_TopGame \/ Collect_End)

\* C13: the GetStreams call that follows a response reporting remaining <= 3
\* is issued at or after the reported reset time
C13_BackoffUntilReset ==
    [][(NextTopGameCall /\ calls[Len(calls)].remaining <= RateLimitLowWater)
          => now >= calls[Len(calls)].reset]_vars

\* C13: after a response reporting remaining > 3, or one whose reset time is
\* not in the future, the loop goes on without waiting and without failing
C13_NoWaitOtherwise ==
    (AfterTopGameResponse
       /\ (calls[Len(calls)].remaining > RateLimitLowWater
             \/ calls[Len(calls)].reset <= now))
        => (LoopNotBlocked /\ ~crashed)

\* C13: the backoff of the top-games loop - the wait is until the reported
\* reset time when remaining <= 3 and the reset time is to come, and there
\* is none otherwise
C13_RateLimitBackoff == C13_BackoffUntilReset /\ []C13_NoWaitOtherwise

\* C13 witness: two GetStreams calls of the loop, the first answered with
\* remaining <= 3 and a reset time then in the future, the second issued
C13_Witness ==
    \E i \in 1..(Len(calls) - 1) :
        /\ last = "exporter"
        /\ IsTopGameCall(calls[i])
        /\ IsTopGameCall(calls[i + 1])
        /\ calls[i].kind = "resp"
        /\ calls[i].remaining <= RateLimitLowWater
        /\ calls[i].reset = now
        /\ now > 1

\* C14: no remote call is issued by a scrape while a response it has received
\* reported remaining <= 3 with a reset time that has not yet come
C14_NoCallBeforeReset ==
    [][(last' = "exporter" /\ last = "exporter" /\ Len(calls') > Len(calls))
          => \A i \in 1..Len(calls) :
                (calls[i].kind = "resp"
                   /\ calls[i].remaining <= RateLimitLowWater)
                    => now >= calls[i].reset]_vars

\* ------------------------------------------------------------------------
\* Properties of the uptime values
\* ------------------------------------------------------------------------
\* This step of the uptime Update sends the sample of the next stream
UptimeEmits ==
    /\ active = "uptime"
    /\ upt.streams # << >>
    /\ Len(ch') = Len(ch) + 1

\* The stream whose sample is sent, and the value sent
Emitting == Head(upt.streams)

EmittedValue == ch'[Len(ch')].value

\* C15: the sample of a channel never pushed before carries the time since
\* the stream started; the sample of a channel pushed before in the same
\* stream session, and live in every scrape since, carries the time since
\* the previous successful scrape.
C15_FirstThenSincePrevious ==
    [][UptimeEmits =>
          /\ Emitting.UserName \notin DOMAIN upt.seen
                => EmittedValue = now - Emitting.StartedAt
          /\ (/\ Emitting.UserName \in DOMAIN upt.seen
              /\ Emitting.UserName \notin upt.absent
              /\ upt.seen[Emitting.UserName] = Emitting.StartedAt)
                => EmittedValue = now - upt.okAt]_vars

\* C16: the sample of a channel that was pushed before, then missing from a
\* successful scrape, and is live again with a new start time carries the
\* time since the new start.
C16_NewSessionIsFirstObservation ==
    [][(/\ UptimeEmits
        /\ Emitting.UserName \in DOMAIN upt.seen
        /\ Emitting.UserName \in upt.absent
        /\ upt.seen[Emitting.UserName] # Emitting.StartedAt)
          => EmittedValue = now - Emitting.StartedAt]_vars

\* The uptime Update reads the clock later than the previous Update set
\* lastScrape and later than the start of every stream it is told of
ClockMovedOn ==
    /\ now > lastScrape
    /\ \A c \in Channels : streams[c] # Offline => streams[c] < now

NextUptimeSpaced ==
    \/ /\ ClockMovedOn
       /\ \E resp \in GetStreamsResponses(channelNames) : Uptime_Update_Begin(resp)
    \/ Uptime_Update_Stream
    \/ Uptime_Update_End

SpecUptimeSpaced == Init /\ [][NextEnv \/ NextUptimeSpaced]_vars

\* The uptime Update has returned nil after a 200 response
UptimeSucceeded ==
    /\ last = "uptime"
    /\ active = "none"
    /\ ret = "nil"
    /\ calls # << >>
    /\ calls[1].kind = "resp"
    /\ calls[1].status = 200

\* The channels of the streams in the Update's GetStreams response
LiveInResponse ==
    {calls[1].streams[i].UserName : i \in 1..Len(calls[1].streams)}

\* C17: after an uptime Update with a 200 response, every channel live in
\* the response has exactly one sample, of a value above zero, and no other
\* channel has a sample.
C17_OneSamplePerLiveChannel ==
    UptimeSucceeded =>
        /\ \A c \in LiveInResponse :
              \E j \in 1..Len(ch) :
                 /\ ch[j].label = c
                 /\ ch[j].value > 0
                 /\ \A k \in 1..Len(ch) : ch[k].label = c => k = j
        /\ \A j \in 1..Len(ch) : ch[j].label \in LiveInResponse
        /\ LiveInResponse \subseteq Range(channelNames)

\* C17 witness: two channels configured, one live and pushed before, one
\* offline; the Update returned with the one sample
C17_Witness ==
    /\ UptimeSucceeded
    /\ Len(channelNames) = 2
    /\ Cardinality(LiveInResponse) = 1
    /\ scrapes = 2
    /\ Len(ch) = 1

(***************************************************************************)
(* The identity-lookup cache of GetUserByUsername, on one channel scraped   *)
(* by the clips collector while the clock moves.                            *)
(***************************************************************************)
SpecLookup == InitPages /\ [][Tick \/ NextClips]_vars

\* This step is a GetUserByUsername
LookupStep == lookup' # lookup

\* This step issued a remote GetUsers call for username
RemoteCall(username) ==
    /\ Len(calls') = Len(calls) + 1
    /\ calls'[Len(calls')].op = "GetUsers"
    /\ calls'[Len(calls')].arg = username

\* This step issued no remote call
NoRemoteCall == calls' = calls

\* The cache holds an entry for username that is younger than the TTL
Fresh(username) ==
    /\ username \in DOMAIN userCache
    /\ now - userCache[username].stored < CacheTTL

\* C18: a lookup of a username never cached misses without an error and
\* issues a remote GetUsers call; a lookup of a username cached within the
\* TTL returns the cached user, which is the fetched one, with a nil error
\* and no remote call; a lookup of a username whose entry is as old as the
\* TTL issues a remote call again, the entry still being in the cache.
C18_CacheRoundTrip ==
    [][LookupStep /\ lookup'.get # "error" =>
         LET u == lookup'.username IN
         /\ u \notin DOMAIN userCache =>
              lookup'.get = "miss" /\ RemoteCall(u)
         /\ Fresh(u) =>
              /\ NoRemoteCall
              /\ lookup'.get = "hit"
              /\ lookup'.user = u
              /\ lookup'.err = "nil"
         /\ u \in DOMAIN userCache /\ ~Fresh(u) =>
              lookup'.get = "miss" /\ RemoteCall(u)
         /\ lookup'.set = "ok" =>
              /\ userCache'[u].data = Marshal(lookup'.user)
              /\ Unmarshal(userCache'[u].data) = u]_vars

\* C18 witness: the second scrape's lookup was served from the cache
C18_Witness_Hit ==
    /\ lookup.n = 2
    /\ lookup.get = "hit"
    /\ lookup.user = lookup.username
    /\ calls[Len(calls)].channel = ""

\* C19: the cache starts empty and is written only by a lookup whose remote
\* GetUsers call for that username returned status 200 with a non-empty
\* user list, and only for that username; a lookup whose remote result is
\* empty, non-2xx or a transport error leaves the cache alone, and a lookup
\* of a username that is not in the cache issues a remote call.
C19_DoNotCache ==
    /\ DOMAIN userCache = {}
    /\ [][/\ userCache' # userCache =>
               /\ LookupStep
               /\ RemoteCall(lookup'.username)
               /\ calls'[Len(calls')].kind = "resp"
               /\ calls'[Len(calls')].status = 200
               /\ calls'[Len(calls')].users # {}
               /\ \A x \in DOMAIN userCache' :
                    x # lookup'.username =>
                      x \in DOMAIN userCache /\ userCache'[x] = userCache[x]
          /\ LookupStep /\ lookup'.get = "miss" /\
               (\/ calls'[Len(calls')].kind = "err"
                \/ calls'[Len(calls')].status # 200
                \/ calls'[Len(calls')].users = {}) =>
               userCache' = userCache
          /\ LookupStep /\ lookup'.get # "error" /\
               lookup'.username \notin DOMAIN userCache =>
               RemoteCall(lookup'.username)]_vars

\* C19 witness: the second scrape's lookup went to the remote service and
\* the cache is still empty, so the first scrape's lookup cached nothing
C19_Witness ==
    /\ lookup.n = 2
    /\ lookup.get = "miss"
    /\ DOMAIN userCache = {}
    /\ calls[Len(calls)].op = "GetUsers"
    /\ calls[Len(calls)].channel = lookup.username
    /\ calls[Len(calls)].status # 200

\* C20: when the remote GetUsers call returns status 200 with a non-empty
\* user list and the cache write fails, GetUserByUsername returns the
\* fetched user with a nil error and Update goes on to the channel's clips.
C20_SetFailureNotFatal ==
    [][LookupStep /\ lookup'.set = "failed" =>
         /\ RemoteCall(lookup'.username)
         /\ calls'[Len(calls')].status = 200
         /\ calls'[Len(calls')].users # {}
         /\ lookup'.user = lookup'.username
         /\ lookup'.user # NilUser
         /\ lookup'.err = "nil"
         /\ clp'.pc = "clips"
         /\ clp'.user = lookup'.user
         /\ ~crashed']_vars

\* C20 witness: a lookup whose cache write failed handed its user to Update
C20_Witness ==
    /\ lookup.set = "failed"
    /\ clp.pc = "clips"
    /\ clp.user = lookup.username
    /\ lookup.username \notin DOMAIN userCache

\* C21: a lookup whose cache Get fails with an error other than not-found
\* goes on to the remote GetUsers call and does not return the cache error.
C21_CacheGetErrorFallsBack ==
    [][LookupStep /\ lookup'.get = "error" =>
         /\ RemoteCall(lookup'.username)
         /\ lookup'.err # "could not retrieve user by username from cache"]_vars

\* C22: every GetChannelChatChatters call of Update carries the non-empty ID
\* that the constructor's GetUsers lookup resolved for the channel name; no
\* call is issued for a name the lookup did not resolve.
C22_ChattersCallHasResolvedID ==
    \A i \in 1..Len(calls) :
        calls[i].op = "GetChannelChatChatters" =>
            /\ calls[i].channel \in DOMAIN channelIDmap
            /\ calls[i].arg = channelIDmap[calls[i].channel]
            /\ calls[i].arg # ""

(***************************************************************************)
(* The channel part of Exporter.Collect on two configured channels, each    *)
(* live or offline: the streams loop and the users loop. The remote's       *)
(* GetTopGames call fails, which ends the scrape after the users loop.      *)
(***************************************************************************)
InitUpDown == Init /\ channelNames = <<"c1", "c2">>

NextUpDown ==
    \/ \E resp \in GetStreamsResponses(channelNames) : Collect_Begin(resp)
    \/ Collect_Stream
    \/ \E resp \in GetUsersResponses(channelNames) : Collect_Users(resp)
    \/ \E f \in GetChannelFollowsResponses, sb \in GetSubscriptionsResponses :
          Collect_User(f, sb)
    \/ \E resp \in {r \in GetTopGamesResponses : r.kind = "err"} :
          Collect_TopGames(resp)

SpecUpDown ==
    InitUpDown /\ [][(\E c \in Channels : AlreadyLive(c)) \/ NextUpDown]_vars

\* Every call of the scrape to op has come back with status 200
Succeeded(op) ==
    \A i \in 1..Len(calls) :
        calls[i].op = op => calls[i].kind = "resp" /\ calls[i].status = 200

\* The channels of the scrape's live-streams response
LiveInStreams == {calls[1].streams[k].UserName : k \in 1..Len(calls[1].streams)}

\* The channels returned by the scrape's GetUsers call
UsersReturned ==
    UNION {calls[i].users : i \in {j \in 1..Len(calls) : calls[j].op = "GetUsers"}}

\* The users loop of the scrape has dealt with the user
UserDone(user) ==
    \E i \in 1..Len(calls) :
        calls[i].op = "GetSubscriptions" /\ calls[i].channel = user

UpSamples(user) ==
    {k \in 1..Len(ch) : ch[k].family = "channel_up" /\ ch[k].label = user}

\* C23: in a scrape of Collect whose GetStreams, GetUsers, GetChannelFollows
\* and GetSubscriptions calls all succeeded, every channel returned by
\* GetUsers that the users loop has dealt with has exactly one channel_up
\* sample: 1 if the channel is in the live-streams response, 0 otherwise;
\* and no channel has both a 1 and a 0 sample.
C23_OneUpSamplePerChannel ==
    (/\ last = "exporter"
     /\ calls # << >>
     /\ Succeeded("GetStreams") /\ Succeeded("GetUsers")
     /\ Succeeded("GetChannelFollows") /\ Succeeded("GetSubscriptions"))
    => /\ \A user \in UsersReturned :
            UserDone(user) =>
              /\ Cardinality(UpSamples(user)) = 1
              /\ \A k \in UpSamples(user) :
                   ch[k].value = IF user \in LiveInStreams THEN 1 ELSE 0
       /\ \A c \in Channels :
            \A k, l \in UpSamples(c) : ch[k].value = ch[l].value

\* C23 witness: both channels returned, one live and one offline, the users
\* loop finished after four successful kinds of call
C23_Witness ==
    /\ last = "exporter"
    /\ calls # << >>
    /\ Succeeded("GetStreams") /\ Succeeded("GetUsers")
    /\ Succeeded("GetChannelFollows") /\ Succeeded("GetSubscriptions")
    /\ UsersReturned = {"c1", "c2"}
    /\ Cardinality(LiveInStreams) = 1
    /\ \A user \in UsersReturned : UserDone(user)
    /\ \E k \in UpSamples("c1"), l \in UpSamples("c2") :
          ch[k].value + ch[l].value = 1

\* A chat-messages Update has returned
ChatUpdateReturned ==
    /\ ~crashed
    /\ last = "chat_messages"
    /\ active = "none"

\* C24: a delivered event whose payload fails to decode starts no Add and
\* leaves every count as it was, no key of the counter map comes from such
\* a payload, and an Update that returns after one was dropped returns nil
\* (ErrNoData with no channel configured); the map write of an Add raises
\* the count of its chatter identity by 1 and leaves every other count and
\* key as it was.
C24_EventFrame ==
    /\ [](/\ DOMAIN chatMessages \subseteq Identities
          /\ (dropped > 0 /\ ChatUpdateReturned) =>
                ret = IF Len(channelNames) = 0 THEN ErrNoData ELSE "nil")
    /\ [][/\ dropped' # dropped =>
               /\ chatMessages' = chatMessages
               /\ add' = add
               /\ chatMessagesMutex' = chatMessagesMutex
          /\ \A d \in Deliverers :
               (add[d].pc = "write" /\ add'[d].pc = "unlock") =>
                 LET u == add[d].username IN
                 /\ u \in Identities
                 /\ DOMAIN chatMessages' = DOMAIN chatMessages \cup {u}
                 /\ chatMessages'[u] = Count(chatMessages, u) + 1
                 /\ \A x \in DOMAIN chatMessages \ {u} :
                      chatMessages'[x] = chatMessages[x]]_vars

\* C24 witness: a payload was dropped, an event was counted, and an Update
\* has sent samples and returned nil
C24_Witness ==
    /\ dropped > 0
    /\ \E u \in Identities : added[u] > 0
    /\ ChatUpdateReturned
    /\ ret = "nil"
    /\ ch # << >>

(***************************************************************************)
(* The page walk of getClipsCount under fairness: a GetClips call that has  *)
(* been issued comes back with some response.                               *)
(***************************************************************************)
SpecPagesLive ==
    SpecPages
      /\ WF_vars(\E resp \in GetClipsResponses(clp.cursor) :
                    Clips_Update_GetClips(resp))

\* This step is a GetClips call of getClipsCount and its response
WalkStep ==
    /\ Len(calls') = Len(calls) + 1
    /\ calls'[Len(calls')].op = "GetClips"

\* The page ends the walk: a transport error, a status other than 200, or
\* the empty cursor
LastPage(r) == r.kind = "err" \/ r.status # 200 \/ r.next = 0

\* C25: a page walk that has begun comes to an end; every GetClips call asks
\* for the cursor the walk stands at, a page with a transport error, a
\* status other than 200 or the empty cursor ends the walk, any other page
\* is followed by the call for its cursor, and no cursor is asked twice in
\* one walk.
C25_WalkTerminates ==
    /\ (clp.pc = "clips") ~> (clp.pc # "clips")
    /\ [][WalkStep =>
            LET r == calls'[Len(calls')] IN
            /\ clp.pc = "clips"
            /\ r.arg = clp.cursor
            /\ IF LastPage(r)
                 THEN clp'.pc # "clips"
                 ELSE /\ clp'.pc = "clips"
                      /\ clp'.cursor = r.next]_vars
    /\ [](\A c \in Channels :
            LET pages == PagesOf(c) IN
            \A i, j \in 1..Len(pages) : pages[i].arg = pages[j].arg => i = j)

\* C25 witness: a walk of three pages that a status other than 200 ended
C25_Witness ==
    /\ last = "clips"
    /\ Len(PagesOf("c1")) = 3
    /\ calls[Len(calls)].op = "GetClips"
    /\ calls[Len(calls)].kind = "resp"
    /\ calls[Len(calls)].status # 200
    /\ clp.pc # "clips"

\* C26: Has and GetName report no entry that has been in the game-name cache
\* for the prune age or longer.
C26_NoStaleGameName ==
    \A id \in GameIDs :
        (Has(gameIdCache, id) \/ GetName(gameIdCache, id) # "") =>
            now - gameIdCache[id].Stored < PruneAge

\* ------------------------------------------------------------------------
\* Concurrent scrapes of the uptime collector (channel_uptime.go)
\* ------------------------------------------------------------------------
\* Two scrapes may run Update at the same time. cup[p].out records, for each
\* sample scrape p has sent, its channel and which branch sent it: "start"
\* for the time since the stream started, "since" for the time since
\* lastScrape.
CupIdle(p) == [cup EXCEPT ![p].pc = "idle", ![p].streams = << >>]

\* Update: the empty-list check, GetStreams, the return on a transport error
Conc_Update_Begin(p, resp) ==
    /\ ~crashed
    /\ cup[p].pc = "idle"
    /\ scrapes < MaxScrapes
    /\ scrapes' = scrapes + 1
    /\ last' = "uptime"
    /\ cup' = IF NoChannels \/ resp.kind = "err" THEN cup
              ELSE [cup EXCEPT ![p].pc = "check", ![p].streams = resp.streams]
    /\ UNCHANGED <<channelNames, chatVars, chattersVars, firstPush, lastScrape,
                   upt, firstPushMutex, envVars, clipsVars, exporterVars,
                   active, ch, ret, calls, crashed>>

\* if _, ok := firstPush[s.UserName]; !ok - read with no lock held; the else
\* branch sends the time since lastScrape
Conc_Update_Check(p) ==
    /\ ~crashed
    /\ cup[p].pc = "check"
    /\ cup[p].streams # << >>
    /\ LET s == Head(cup[p].streams) IN
       cup' = IF s.UserName \notin firstPush
                THEN [cup EXCEPT ![p].pc = "lock"]
                ELSE [cup EXCEPT ![p].streams = Tail(@),
                                 ![p].out = Append(@, [label |-> s.UserName,
                                                       kind |-> "since"])]
    /\ UNCHANGED <<channelNames, chatVars, chattersVars, firstPush, lastScrape,
                   upt, firstPushMutex, envVars, clipsVars, exporterVars,
                   scrapeVars>>

\* The unlocked read of firstPush runs while another scrape is inside its
\* map write: a data race, which the Go runtime may end with "fatal error:
\* concurrent map read and map write"
Conc_Update_CheckFatal(p) ==
    /\ ~crashed
    /\ cup[p].pc = "check"
    /\ cup[p].streams # << >>
    /\ \E q \in Scrapers \ {p} : cup[q].pc = "write"
    /\ crashed' = TRUE
    /\ UNCHANGED <<channelNames, chatVars, chattersVars, uptimeVars, envVars,
                   clipsVars, exporterVars, active, ch, ret, last, scrapes,
                   calls>>

\* firstPushMutex.Lock()
Conc_Update_Lock(p) ==
    /\ ~crashed
    /\ cup[p].pc = "lock"
    /\ firstPushMutex = "free"
    /\ firstPushMutex' = p
    /\ cup' = [cup EXCEPT ![p].pc = "write"]
    /\ UNCHANGED <<channelNames, chatVars, chattersVars, firstPush, lastScrape,
                   upt, envVars, clipsVars, exporterVars, scrapeVars>>

\* firstPush[s.UserName] = true and the sample of the time since the stream
\* started
Conc_Update_Write(p) ==
    /\ ~crashed
    /\ cup[p].pc = "write"
    /\ LET s == Head(cup[p].streams) IN
       /\ firstPush' = firstPush \cup {s.UserName}
       /\ cup' = [cup EXCEPT ![p].pc = "unlock",
                             ![p].out = Append(@, [label |-> s.UserName,
                                                   kind |-> "start"])]
    /\ UNCHANGED <<channelNames, chatVars, chattersVars, lastScrape, upt,
                   firstPushMutex, envVars, clipsVars, exporterVars,
                   scrapeVars>>

\* firstPushMutex.Unlock(); on to the next stream
Conc_Update_Unlock(p) ==
    /\ ~crashed
    /\ cup[p].pc = "unlock"
    /\ firstPushMutex = p
    /\ firstPushMutex' = "free"
    /\ cup' = [cup EXCEPT ![p].pc = "check", ![p].streams = Tail(@)]
    /\ UNCHANGED <<channelNames, chatVars, chattersVars, firstPush, lastScrape,
                   upt, envVars, clipsVars, exporterVars, scrapeVars>>

\* After the loop: lastScrape = time.Now(); return nil
Conc_Update_End(p) ==
    /\ ~crashed
    /\ cup[p].pc = "check"
    /\ cup[p].streams = << >>
    /\ lastScrape' = now
    /\ cup' = CupIdle(p)
    /\ UNCHANGED <<channelNames, chatVars, chattersVars, firstPush, upt,
                   firstPushMutex, envVars, clipsVars, exporterVars,
                   scrapeVars>>

NextConc ==
    \/ \E p \in Scrapers, resp \in GetStreamsResponses(channelNames) :
          Conc_Update_Begin(p, resp)
    \/ \E p \in Scrapers : Conc_Update_Check(p)
    \/ \E p \in Scrapers : Conc_Update_CheckFatal(p)
    \/ \E p \in Scrapers : Conc_Update_Lock(p)
    \/ \E p \in Scrapers : Conc_Update_Write(p)
    \/ \E p \in Scrapers : Conc_Update_Unlock(p)
    \/ \E p \in Scrapers : Conc_Update_End(p)

\* Channels that are live stay live: one stream session per channel
SpecUptimeConcurrent ==
    Init /\ [][Tick \/ (\E c \in Channels : AlreadyLive(c)) \/ NextConc]_vars

\* The samples of the time since the stream started sent for a channel
StartSamples(c) ==
    {x \in Scrapers \X (1..MaxScrapes * 2) :
        /\ x[2] <= Len(cup[x[1]].out)
        /\ cup[x[1]].out[x[2]].label = c
        /\ cup[x[1]].out[x[2]].kind = "start"}

\* C27: of the concurrent Updates that see a channel live in one stream
\* session, at most one sends the time since the stream started.
C27_FirstObservationOnce ==
    \A c \in Channels : Cardinality(StartSamples(c)) <= 1

\* C28: with each sample the uptime Update sends for a channel that has been
\* live in one stream session since it was first pushed, the values sent for
\* the channel in that session add up to the time since the stream started.
C28_CumulativeUptimeExact ==
    [][(/\ UptimeEmits
        /\ Emitting.UserName \notin upt.absent
        /\ Emitting.UserName \in DOMAIN upt.seen
              => upt.seen[Emitting.UserName] = Emitting.StartedAt)
          => upt'.total[Emitting.UserName] = now - Emitting.StartedAt]_vars

====
